---- MODULE Spec2Model ----
(***************************************************************************)
(* promkit: the prompt loop (Prompt::try_new / run / Drop, src/src/lib.rs) *)
(* and the composite cursor (promkit/src/core/cursor/composite.rs).        *)
(*                                                                         *)
(* Spec        the life of Prompt values in one process: construction,     *)
(*             run() step by step, and drop.  The renderers, the           *)
(*             evaluator, the producer and the terminal are callers'       *)
(*             code or the environment: each call answers                  *)
(*             nondeterministically with any value its type allows.        *)
(* SpecCursor  a CompositeCursor built by new() over any block list and    *)
(*             any requested position, then driven by any sequence of      *)
(*             its navigation methods.                                     *)
(***************************************************************************)
EXTENDS Integers, Sequences, FiniteSets, TLC

(***************************************************************************)
(* Bounds of the model.                                                    *)
(***************************************************************************)
NumRenderers == 3   \* components registered in a Prompt
MaxTicks == 3       \* events read successfully in one run()
MaxRuns == 2        \* run() calls in the process
MaxWidth == 2       \* terminal widths 1..MaxWidth
MaxBlocks == 2      \* blocks in a cursor's bundle
MaxBlockLen == 2    \* length of one block
MaxShift == 2       \* small shift amounts 0..MaxShift (usize::MAX is tried too)
UsizeBits == 4      \* width of usize in the model (the build's is 32 or 64)
MaxLen == 3         \* units in a styled sequence
MaxRepl == 2        \* characters in a replacement text
MaxLayoutWidth == 3 \* layout widths 0..MaxLayoutWidth
MaxHeight == 2      \* page heights 0..MaxHeight
MaxOffset == 4      \* line offsets 0..MaxOffset
MaxItems == 3       \* items registered in a SelectBox
MaxDowns == 4       \* next() calls counted in a row
MaxRows == 2        \* rows of a frame set

VARIABLES
    \* ---- Prompt::run and its environment ----
    pc,             \* position of the process in try_new / run / drop
    once,           \* static ONCE: the call_once closure has run
    cleared,        \* number of engine.clear() calls in the process
    clearResult,    \* what the engine.clear() call reported ("none": not called)
    runs,           \* number of run() calls in the process
    raw_mode,       \* terminal: raw mode enabled
    cursor_hidden,  \* terminal: cursor hidden
    term_width,     \* terminal: current width
    size,           \* run(): `size.0`, the width of the latest size query
    tick,           \* run(): events read (the current event is event `tick`)
    idx,            \* run(): index of the renderer the iteration is at
    should_quit,    \* run(): `should_quit`
    ret,            \* run(): `ret`, the producer's value
    result,         \* what run() returned to its caller ("none" while running)
    \* ---- observations of the calls run() and drop make ----
    dispatched,     \* renderers whose handle_event got the current event, in order
    quitter,        \* renderer that returned Quit for the current event (0: none)
    failed,         \* renderer whose handle_event failed for the current event (0: none)
    evalTick,       \* event the evaluator was last called with (0: never)
    evalRet,        \* what that evaluator call returned
    sizeTick,       \* event that was current at the latest size query
    draws,          \* terminal.draw calls of this run
    drawnWidth,     \* width of the panes given to the latest draw
    drawTick,       \* event that was current at the latest draw
    producerCalls,  \* producer calls of this run
    postrunLog,     \* renderers whose postrun ran in this run, in order
    dropLog,        \* terminal commands issued by the drop of the current Prompt
    \* ---- CompositeCursor ----
    bundle,                   \* lengths of the blocks
    cross_contents_position,  \* the stored position
    lastOp,                   \* the method called last
    lastRet,                  \* what it returned ("true", "false", "unit", "panic"),
                              \* for the derived query the return taken ("scan", "fallback")
    derived,                  \* the pair the derived query returned (<<>>: no pair)
    lastArgs,                 \* its arguments <<backward, forward>> (shift), <<position>> (new)
    prevPos,                  \* the position before that call
    prevOp,                   \* the method called before that
    prevRet,                  \* what it returned
    prevPrevPos,              \* the position before that earlier call
    \* ---- StyledGraphemes ----
    text,           \* the sequence a method is called on
    tOp,            \* the method called ("none": not yet)
    tArgs,          \* its arguments
    tOut,           \* what it returned (replace_range: the sequence it left)
    tPanic,         \* the call panicked
    \* ---- SelectBox ----
    data,           \* SelectBox::data, the registered items
    select_idx,     \* SelectBox::idx
    selOp,          \* the method called last
    selRet,         \* what it returned ("true", "false", "unit", "panic")
    selPrevIdx,     \* idx before that call
    downs,          \* next() calls made in a row since idx was 0 (-1: not tracked)
    \* ---- Terminal (the renderer behind terminal.draw) ----
    rStarted,       \* a session is started
    rSize,          \* the terminal size at the last draw (or at session start)
    rPrev,          \* the committed frame set, as <<rows>> (<<>>: none)
    rPaint,         \* the kind of the last draw: "none", "full" or "diff"
    rWritten,       \* rows the last draw wrote
    rSkipped,       \* rows the last draw skipped as unchanged
    rCleared,       \* rows the last draw cleared
    rSizeBefore,    \* rSize before the last draw
    rPrevBefore     \* rPrev before the last draw

promptVars == <<pc, once, cleared, clearResult, runs, raw_mode, cursor_hidden, term_width, size,
                tick, idx, should_quit, ret, result>>
obsVars == <<dispatched, quitter, failed, evalTick, evalRet, sizeTick, draws,
             drawnWidth, drawTick, producerCalls, postrunLog, dropLog>>
cursorVars == <<bundle, cross_contents_position, lastOp, lastRet, derived, lastArgs,
                prevPos, prevOp, prevRet, prevPrevPos>>
textVars == <<text, tOp, tArgs, tOut, tPanic>>
selectVars == <<data, select_idx, selOp, selRet, selPrevIdx, downs>>
rendererVars == <<rStarted, rSize, rPrev, rPaint, rWritten, rSkipped, rCleared,
                  rSizeBefore, rPrevBefore>>
otherVars == <<cursorVars, textVars, selectVars, rendererVars>>
vars == <<promptVars, obsVars, cursorVars, textVars, selectVars, rendererVars>>

procVars == <<once, cleared, clearResult, runs>>
termVars == <<raw_mode, cursor_hidden>>
runLocals == <<size, tick, idx, should_quit, ret>>
tickObs == <<dispatched, quitter, failed>>
evalObs == <<evalTick, evalRet>>
drawObs == <<sizeTick, draws, drawnWidth, drawTick>>
endObs == <<producerCalls, postrunLog>>

Renderers == 1..NumRenderers
Widths == 1..MaxWidth

(***************************************************************************)
(* Prompt                                                                  *)
(***************************************************************************)
InitPrompt ==
    /\ pc = "idle"
    /\ once = FALSE
    /\ cleared = 0
    /\ clearResult = "none"
    /\ runs = 0
    /\ raw_mode = FALSE
    /\ cursor_hidden = FALSE
    /\ term_width \in Widths
    /\ size = 0
    /\ tick = 0
    /\ idx = 0
    /\ should_quit = FALSE
    /\ ret = "none"
    /\ result = "none"
    /\ dispatched = <<>>
    /\ quitter = 0
    /\ failed = 0
    /\ evalTick = 0
    /\ evalRet = "none"
    /\ sizeTick = 0
    /\ draws = 0
    /\ drawnWidth = 0
    /\ drawTick = 0
    /\ producerCalls = 0
    /\ postrunLog = <<>>
    /\ dropLog = <<>>

\* Mutant of Fail: the postrun hooks run before the error is returned.
FailRunsPostrun(e) ==
    /\ pc' = "postrun"
    /\ result' = e

\* `return Err(e)` / `?`: run() returns the error at once.
Fail(e) ==
    /\ pc' = "returned"
    /\ result' = e

\* Prompt::try_new: stores the renderers, the evaluator and the producer.
TryNew ==
    /\ pc = "idle"
    /\ pc' = "new"
    /\ dropLog' = <<>>
    /\ UNCHANGED <<procVars, termVars, term_width, runLocals, result>>
    /\ UNCHANGED <<tickObs, evalObs, drawObs, endObs>>
    /\ UNCHANGED otherVars

\* Mutant of CallOnceRuns: the closure runs in every run().
CallOnceRunsAlways(completed) == TRUE

\* std::sync::Once::call_once runs its closure iff no call_once of ONCE has
\* completed before.
CallOnceRuns(completed) == ~completed

ClearResults == {"Ok", "Err"}

\* run(), entry: Engine::new, then ONCE.call_once(|| { engine.clear().ok(); }).
\* The closure runs in the first run() of the process only; what clear() reports
\* is dropped by .ok().
RunBegin ==
    /\ pc \in {"new", "returned"}
    /\ runs < MaxRuns
    /\ runs' = runs + 1
    /\ IF CallOnceRuns(once)
          THEN /\ once' = TRUE
               /\ cleared' = cleared + 1
               /\ clearResult' \in ClearResults
          ELSE UNCHANGED <<once, cleared, clearResult>>
    /\ pc' = "enable_raw_mode"
    /\ size' = 0 /\ tick' = 0 /\ idx' = 0 /\ should_quit' = FALSE /\ ret' = "none"
    /\ result' = "none"
    /\ dispatched' = <<>> /\ quitter' = 0 /\ failed' = 0
    /\ evalTick' = 0 /\ evalRet' = "none"
    /\ sizeTick' = 0 /\ draws' = 0 /\ drawnWidth' = 0 /\ drawTick' = 0
    /\ producerCalls' = 0 /\ postrunLog' = <<>>
    /\ UNCHANGED <<termVars, term_width, dropLog>>
    /\ UNCHANGED otherVars

\* enable_raw_mode()?
EnableRawMode ==
    /\ pc = "enable_raw_mode"
    /\ \E ok \in BOOLEAN :
          IF ok THEN /\ raw_mode' = TRUE
                     /\ pc' = "hide"
                     /\ UNCHANGED result
                ELSE /\ Fail("Err_enable_raw_mode")
                     /\ UNCHANGED raw_mode
    /\ UNCHANGED <<procVars, cursor_hidden, term_width, runLocals>>
    /\ UNCHANGED <<tickObs, evalObs, drawObs, endObs, dropLog>>
    /\ UNCHANGED otherVars

\* execute!(io::stdout(), cursor::Hide)?
HideCursor ==
    /\ pc = "hide"
    /\ \E ok \in BOOLEAN :
          IF ok THEN /\ cursor_hidden' = TRUE
                     /\ pc' = "start_session"
                     /\ UNCHANGED result
                ELSE /\ Fail("Err_hide")
                     /\ UNCHANGED cursor_hidden
    /\ UNCHANGED <<procVars, raw_mode, term_width, runLocals>>
    /\ UNCHANGED <<tickObs, evalObs, drawObs, endObs, dropLog>>
    /\ UNCHANGED otherVars

\* Terminal::start_session(&mut engine)?
StartSession ==
    /\ pc = "start_session"
    /\ \E ok \in BOOLEAN :
          IF ok THEN pc' = "first_size" /\ UNCHANGED result
                ELSE Fail("Err_start_session")
    /\ UNCHANGED <<procVars, termVars, term_width, runLocals>>
    /\ UNCHANGED <<tickObs, evalObs, drawObs, endObs, dropLog>>
    /\ UNCHANGED otherVars

\* let size = engine.size()?  (before and inside the loop)
SizeQuery(at, next) ==
    /\ pc = at
    /\ \E ok \in BOOLEAN :
          IF ok THEN /\ size' = term_width
                     /\ sizeTick' = tick
                     /\ pc' = next
                     /\ UNCHANGED result
                ELSE /\ Fail("Err_size")
                     /\ UNCHANGED <<size, sizeTick>>
    /\ UNCHANGED <<procVars, termVars, term_width, tick, idx, should_quit, ret>>
    /\ UNCHANGED <<tickObs, evalObs, draws, drawnWidth, drawTick, endObs, dropLog>>
    /\ UNCHANGED otherVars

\* terminal.draw(&mut engine, renderers.map(|editor| editor.make_pane(size.0)))?
DrawPanes(at) ==
    /\ pc = at
    /\ \E ok \in BOOLEAN :
          IF ok THEN /\ draws' = draws + 1
                     /\ drawnWidth' = size
                     /\ drawTick' = tick
                     /\ pc' = "read"
                     /\ UNCHANGED result
                ELSE /\ Fail("Err_draw")
                     /\ UNCHANGED <<draws, drawnWidth, drawTick>>
    /\ UNCHANGED <<procVars, termVars, term_width, runLocals>>
    /\ UNCHANGED <<tickObs, evalObs, sizeTick, endObs, dropLog>>
    /\ UNCHANGED otherVars

FirstSize == SizeQuery("first_size", "first_draw")
FirstDraw == DrawPanes("first_draw")
\* Mutant of LoopSize: the loop draws with the width it already has.
LoopSizeNoQuery ==
    /\ pc = "size"
    /\ pc' = "draw"
    /\ UNCHANGED <<procVars, termVars, term_width, runLocals, result>>
    /\ UNCHANGED obsVars
    /\ UNCHANGED otherVars

LoopSize == SizeQuery("size", "draw")
LoopDraw == DrawPanes("draw")

\* let ev = event::read()?; let mut should_quit = false;
\* The event read is event number tick + 1.  With no renderer registered the
\* for loop is empty and the evaluator comes next.
ReadEvent ==
    /\ pc = "read"
    /\ \E ok \in BOOLEAN :
          IF ok THEN /\ tick < MaxTicks
                     /\ tick' = tick + 1
                     /\ should_quit' = FALSE
                     /\ idx' = 1
                     /\ dispatched' = <<>> /\ quitter' = 0 /\ failed' = 0
                     /\ pc' = IF NumRenderers = 0 THEN "evaluate" ELSE "dispatch"
                     /\ UNCHANGED result
                ELSE /\ Fail("Err_read")
                     /\ UNCHANGED <<tick, should_quit, idx, tickObs>>
    /\ UNCHANGED <<procVars, termVars, term_width, size, ret>>
    /\ UNCHANGED <<evalObs, drawObs, endObs, dropLog>>
    /\ UNCHANGED otherVars

EventActions == {"Continue", "Quit", "Err"}

\* Mutant of DispatchStep: the Err arm records the error and lets the loop go on.
DispatchStepErrGoesOn(a, i) ==
    CASE a = "Quit" -> <<"evaluate", i>>
      [] a \in {"Err", "Continue"} -> IF i = NumRenderers THEN <<"evaluate", i>>
                                                          ELSE <<"dispatch", i + 1>>

\* Mutant of DispatchStep: the Quit arm sets the flag without `break`.
DispatchStepNoBreak(a, i) ==
    CASE a = "Err" -> <<"returned", i>>
      [] a \in {"Quit", "Continue"} -> IF i = NumRenderers THEN <<"evaluate", i>>
                                                           ELSE <<"dispatch", i + 1>>

\* Where one iteration of `for renderer in &mut self.renderers` leaves the loop,
\* as <<pc, idx>>, when renderer i answered a:
\*   match renderer.handle_event(&ev) {
\*     Ok(Quit) => { should_quit = true; break; }  Err(e) => return Err(e),  _ => () }
DispatchStep(a, i) ==
    CASE a = "Quit" -> <<"evaluate", i>>
      [] a = "Err" -> <<"returned", i>>
      [] a = "Continue" -> IF i = NumRenderers THEN <<"evaluate", i>>
                                               ELSE <<"dispatch", i + 1>>

\* renderer.handle_event(&ev) of the renderer the for loop is at, and the match on
\* its answer.
HandleEvent ==
    /\ pc = "dispatch"
    /\ dispatched' = Append(dispatched, idx)
    /\ \E a \in EventActions :
          /\ pc' = DispatchStep(a, idx)[1]
          /\ idx' = DispatchStep(a, idx)[2]
          /\ should_quit' = IF a = "Quit" THEN TRUE ELSE should_quit
          /\ quitter' = IF a = "Quit" THEN idx ELSE quitter
          /\ failed' = IF a = "Err" THEN idx ELSE failed
          /\ result' = IF a = "Err" THEN "Err_handle_event" ELSE result
    /\ UNCHANGED <<procVars, termVars, term_width, size, tick, ret>>
    /\ UNCHANGED <<evalObs, drawObs, endObs, dropLog>>
    /\ UNCHANGED otherVars

\* Mutant of ShouldBreak: `||` written for `&&`.
ShouldBreakOr(quit, is_ready_for_output) == quit \/ is_ready_for_output

\* if should_quit && is_ready_for_output { break; }
ShouldBreak(quit, is_ready_for_output) == quit /\ is_ready_for_output

EvaluatorResults == {"true", "false", "Err"}

\* let is_ready_for_output = (self.evaluator)(&ev, &self.renderers)?;
\* then the break test; the loop goes on with the size query otherwise.
Evaluate ==
    /\ pc = "evaluate"
    /\ \E r \in EvaluatorResults :
          /\ evalTick' = tick
          /\ evalRet' = r
          /\ IF r = "Err"
                THEN Fail("Err_evaluator")
                ELSE /\ pc' = IF ShouldBreak(should_quit, r = "true")
                                 THEN "produce" ELSE "size"
                     /\ UNCHANGED result
    /\ UNCHANGED <<procVars, termVars, term_width, runLocals>>
    /\ UNCHANGED <<tickObs, drawObs, endObs, dropLog>>
    /\ UNCHANGED otherVars

ProducerResults == {"Ok", "Err_producer"}

\* Mutant of AfterProduce: `let ret = (self.producer)(&self.renderers)?;`
AfterProduceTry(r) ==
    IF NumRenderers = 0 \/ r = "Err_producer" THEN "returned" ELSE "postrun"

\* Where run() goes once the producer answered r: `let ret = ...` has no `?`, so
\* the postrun hooks come next whatever r is (there are none without renderers).
AfterProduce(r) == IF NumRenderers = 0 THEN "returned" ELSE "postrun"

\* let ret = (self.producer)(&self.renderers);
Produce ==
    /\ pc = "produce"
    /\ \E r \in ProducerResults :
          /\ ret' = r
          /\ producerCalls' = producerCalls + 1
          /\ pc' = AfterProduce(r)
          /\ idx' = 1
          /\ result' = IF AfterProduce(r) = "returned" THEN r ELSE result
    /\ UNCHANGED <<procVars, termVars, term_width, size, tick, should_quit>>
    /\ UNCHANGED <<tickObs, evalObs, drawObs, postrunLog, dropLog>>
    /\ UNCHANGED otherVars

\* self.renderers.iter_mut().for_each(|editor| editor.postrun()); ret
Postrun ==
    /\ pc = "postrun"
    /\ postrunLog' = Append(postrunLog, idx)
    /\ IF idx = NumRenderers
          THEN pc' = "returned" /\ result' = ret /\ UNCHANGED idx
          ELSE idx' = idx + 1 /\ UNCHANGED <<pc, result>>
    /\ UNCHANGED <<procVars, termVars, term_width, size, tick, should_quit, ret>>
    /\ UNCHANGED <<tickObs, evalObs, drawObs, producerCalls, dropLog>>
    /\ UNCHANGED otherVars

\* Mutant of Drop: disable_raw_mode() is left out.
DropKeepsRawMode ==
    /\ pc \in {"new", "returned"}
    /\ dropLog' = dropLog \o <<"MoveToNextLine", "Show">>
    /\ cursor_hidden' = FALSE
    /\ pc' = "idle"
    /\ UNCHANGED <<procVars, raw_mode, term_width, runLocals, result>>
    /\ UNCHANGED <<tickObs, evalObs, drawObs, endObs>>
    /\ UNCHANGED otherVars

\* Mutant of Drop: a Prompt whose run() was never called is dropped silently.
DropOnlyAfterRun ==
    /\ pc \in {"new", "returned"}
    /\ dropLog' = IF pc = "new" THEN dropLog
                  ELSE dropLog \o <<"MoveToNextLine", "Show", "disable_raw_mode">>
    /\ cursor_hidden' = FALSE
    /\ raw_mode' = FALSE
    /\ pc' = "idle"
    /\ UNCHANGED <<procVars, term_width, runLocals, result>>
    /\ UNCHANGED <<tickObs, evalObs, drawObs, endObs>>
    /\ UNCHANGED otherVars

\* impl Drop for Prompt: MoveToNextLine(1), Show, disable_raw_mode, each `.ok()`.
\* A Prompt can be dropped once run() is not executing: never run, or returned.
Drop ==
    /\ pc \in {"new", "returned"}
    /\ dropLog' = dropLog \o <<"MoveToNextLine", "Show", "disable_raw_mode">>
    /\ cursor_hidden' = FALSE
    /\ raw_mode' = FALSE
    /\ pc' = "idle"
    /\ UNCHANGED <<procVars, term_width, runLocals, result>>
    /\ UNCHANGED <<tickObs, evalObs, drawObs, endObs>>
    /\ UNCHANGED otherVars

\* The user resizes the terminal window, at any time.
Resize ==
    /\ \E w \in Widths \ {term_width} : term_width' = w
    /\ UNCHANGED <<pc, procVars, termVars, runLocals, result>>
    /\ UNCHANGED obsVars
    /\ UNCHANGED otherVars

(***************************************************************************)
(* CompositeCursor                                                         *)
(***************************************************************************)
\* usize: the integers 0..UsizeMax.
UsizeMod == 2 ^ UsizeBits
UsizeMax == UsizeMod - 1

\* usize::saturating_sub
SaturatingSub(a, b) == IF a >= b THEN a - b ELSE 0

\* self.bundle.iter().map(|c| c.len()).sum()
RECURSIVE TotalLen(_)
TotalLen(b) == IF b = <<>> THEN 0 ELSE Head(b) + TotalLen(Tail(b))

\* The block lists of the model: up to MaxBlocks blocks of 0..MaxBlockLen elements.
Bundles == UNION {[1..n -> 0..MaxBlockLen] : n \in 0..MaxBlocks}

\* The shift amounts and requested positions of the model: the small ones and
\* the largest value of usize.
Amounts == (0..MaxShift) \cup {UsizeMax}
Positions == (0..(MaxBlocks * MaxBlockLen + 1)) \cup {UsizeMax}

\* Mutant of AdjustedPosition: the requested position is stored as given.
AdjustedPositionUnclamped(b, position) == position

\* Mutant of AdjustedPosition: a position past the end is clamped to total_len.
AdjustedPositionToLen(b, position) ==
    IF position >= TotalLen(b) THEN TotalLen(b) ELSE position

\* CompositeCursor::new: the position stored for a requested position.
AdjustedPosition(b, position) ==
    IF position >= TotalLen(b) THEN SaturatingSub(TotalLen(b), 1) ELSE position

\* The cursor after CompositeCursor::new(bundle_iter, position).
InitCursor ==
    /\ bundle \in Bundles
    /\ \E position \in Positions :
          /\ cross_contents_position = AdjustedPosition(bundle, position)
          /\ lastArgs = <<position>>
    /\ lastOp = "new"
    /\ lastRet = "unit"
    /\ derived = <<>>
    /\ prevPos = 0
    /\ prevOp = "none"
    /\ prevRet = "none"
    /\ prevPrevPos = 0

\* A call of method op with arguments args that returns r and stores position p.
Call(op, args, r, p) ==
    /\ cross_contents_position' = p
    /\ derived' = <<>>
    /\ lastOp' = op
    /\ lastArgs' = args
    /\ lastRet' = r
    /\ prevPos' = cross_contents_position
    /\ prevOp' = lastOp
    /\ prevRet' = lastRet
    /\ prevPrevPos' = prevPos
    /\ UNCHANGED bundle
    /\ UNCHANGED <<promptVars, obsVars, textVars, selectVars, rendererVars>>

\* The outcomes of `new_position + forward` on usize, as <<panicked, value>>: the
\* sum when it fits; when it does not, the build decides: a wrapped sum (overflow
\* checks off, the release profile) or a panic (overflow checks on, the debug
\* profile).
AddOutcomes(a, b) ==
    IF a + b <= UsizeMax
       THEN {<<FALSE, a + b>>}
       ELSE {<<FALSE, (a + b) % UsizeMod>>, <<TRUE, 0>>}

\* The outcomes of `a - b` on usize, as <<panicked, value>>: the difference when
\* it is not negative; when it is, the build decides: a wrapped difference
\* (overflow checks off) or a panic (overflow checks on).
SubOutcomes(a, b) ==
    IF a >= b
       THEN {<<FALSE, a - b>>}
       ELSE {<<FALSE, (a - b) % UsizeMod>>, <<TRUE, 0>>}

\* Mutant of ScanHit: `>=` written for `>`.
ScanHitInclusive(accumulated_len, c_len, position) ==
    accumulated_len + c_len >= position

\* if accumulated_len + c_len > self.cross_contents_position
ScanHit(accumulated_len, c_len, position) == accumulated_len + c_len > position

\* The for loop of current_bundle_index_and_inner_position from block k on (blocks
\* are numbered from 1 here, from 0 in the pair returned): the pair of the first
\* block that holds the position, <<>> when the loop ends without a return.
RECURSIVE Scan(_, _, _, _)
Scan(b, position, k, accumulated_len) ==
    IF k > Len(b)
       THEN <<>>
       ELSE IF ScanHit(accumulated_len, b[k], position)
               THEN <<k - 1, position - accumulated_len>>
               ELSE Scan(b, position, k + 1, accumulated_len + b[k])

\* (self.bundle.len() - 1, self.bundle.last().unwrap().len() - 1), as the set of
\* <<panicked, pair>>: both subtractions are on usize, and last() of an empty
\* block list is None, on which unwrap() panics.
Fallback(b) ==
    IF b = <<>>
       THEN {<<TRUE, <<>>>>}
       ELSE {IF o[1] THEN <<TRUE, <<>>>> ELSE <<FALSE, <<Len(b) - 1, o[2]>>>> :
                o \in SubOutcomes(b[Len(b)], 1)}

\* A call of the derived query: it stores nothing.
Query(r, pair) ==
    /\ lastOp' = "current_bundle_index_and_inner_position"
    /\ lastArgs' = <<>>
    /\ lastRet' = r
    /\ derived' = pair
    /\ prevPos' = cross_contents_position
    /\ prevOp' = lastOp
    /\ prevRet' = lastRet
    /\ prevPrevPos' = prevPos
    /\ UNCHANGED <<bundle, cross_contents_position>>
    /\ UNCHANGED <<promptVars, obsVars, textVars, selectVars, rendererVars>>

\* CompositeCursor::current_bundle_index_and_inner_position
current_bundle_index_and_inner_position ==
    LET found == Scan(bundle, cross_contents_position, 1, 0) IN
    IF found # <<>>
       THEN Query("scan", found)
       ELSE \E f \in Fallback(bundle) :
               IF f[1] THEN Query("panic", <<>>) ELSE Query("fallback", f[2])

\* CompositeCursor::shift(backward, forward)
shift ==
    \E backward \in Amounts, forward \in Amounts :
       LET total_len == TotalLen(bundle) IN
       IF backward > cross_contents_position
          THEN Call("shift", <<backward, forward>>, "false", cross_contents_position)
          ELSE LET new_position == cross_contents_position - backward IN
               \E sum \in AddOutcomes(new_position, forward) :
                  IF sum[1]
                     THEN Call("shift", <<backward, forward>>, "panic",
                               cross_contents_position)
                     ELSE IF sum[2] < total_len
                             THEN Call("shift", <<backward, forward>>, "true", sum[2])
                             ELSE Call("shift", <<backward, forward>>, "false",
                                       cross_contents_position)

\* Mutant of forward: the bound is total_len, not total_len - 1.
forwardOffByOne ==
    LET total_len == TotalLen(bundle) IN
    IF cross_contents_position < total_len
       THEN Call("forward", <<>>, "true", cross_contents_position + 1)
       ELSE Call("forward", <<>>, "false", cross_contents_position)

\* Mutant of forward: at the tail the cursor wraps around to the head.
forwardWrapAround ==
    LET total_len == TotalLen(bundle) IN
    IF cross_contents_position < SaturatingSub(total_len, 1)
       THEN Call("forward", <<>>, "true", cross_contents_position + 1)
       ELSE Call("forward", <<>>, "true", 0)

\* CompositeCursor::forward
forward ==
    LET total_len == TotalLen(bundle) IN
    IF cross_contents_position < SaturatingSub(total_len, 1)
       THEN Call("forward", <<>>, "true", cross_contents_position + 1)
       ELSE Call("forward", <<>>, "false", cross_contents_position)

\* CompositeCursor::backward
backward ==
    IF cross_contents_position > 0
       THEN Call("backward", <<>>, "true", SaturatingSub(cross_contents_position, 1))
       ELSE Call("backward", <<>>, "false", cross_contents_position)

\* CompositeCursor::move_to_head
move_to_head == Call("move_to_head", <<>>, "unit", 0)

\* Mutant of move_to_tail: the position is set to total_len.
move_to_tailPastEnd == Call("move_to_tail", <<>>, "unit", TotalLen(bundle))

\* CompositeCursor::move_to_tail
move_to_tail ==
    LET total_len == TotalLen(bundle) IN
    IF total_len = 0
       THEN Call("move_to_tail", <<>>, "unit", 0)
       ELSE Call("move_to_tail", <<>>, "unit", SaturatingSub(total_len, 1))

(***************************************************************************)
(* StyledGraphemes                                                         *)
(***************************************************************************)
\* The characters of the model and UnicodeWidthChar::width(ch).unwrap_or(0) of each:
\* a narrow one, a wide one (an emoji, a CJK character) and a zero-width one (a
\* combining mark).
Chars == {"a", "W", "z"}
CharWidth(ch) == CASE ch = "a" -> 1 [] ch = "W" -> 2 [] ch = "z" -> 0

\* ContentStyle::default() and one other style.
DefaultStyle == "default"
Styles == {DefaultStyle, "bold"}

\* StyledGrapheme::new(ch, style)
NewGrapheme(ch, style) == [ch |-> ch, width |-> CharWidth(ch), style |-> style]

\* The units of the model: each character in the default style, the narrow one
\* in the other style too.
Units == {NewGrapheme(ch, DefaultStyle) : ch \in Chars} \cup {NewGrapheme("a", "bold")}

\* The styled sequences of the model, built unit by unit.
Texts == UNION {[1..n -> Units] : n \in 0..MaxLen}

\* The replacement texts of the model: "", "a", "aW", "aWa", ...
ReplacementText == [i \in 1..MaxRepl |-> IF i % 2 = 1 THEN "a" ELSE "W"]
Replacements == {SubSeq(ReplacementText, 1, n) : n \in 0..MaxRepl}

\* StyledGraphemes::from_str(string, style)
FromStr(string, style) == [i \in 1..Len(string) |-> NewGrapheme(string[i], style)]

\* StyledGraphemes::widths, and the fold over g.width in matrixify and
\* truncate_to_width.
RECURSIVE widths(_)
widths(g) == IF g = <<>> THEN 0 ELSE Head(g).width + widths(Tail(g))

Min(a, b) == IF a <= b THEN a ELSE b

\* VecDeque::remove(index): removes the element when there is one, else nothing.
Remove(q, index) ==
    IF index < Len(q)
       THEN SubSeq(q, 1, index) \o SubSeq(q, index + 2, Len(q))
       ELSE q

\* for _ in range.clone() { self.0.remove(range.start); }
RECURSIVE RemoveRange(_, _, _)
RemoveRange(q, start, times) ==
    IF times <= 0 THEN q ELSE RemoveRange(Remove(q, start), start, times - 1)

\* Mutant of InsertAll: the replacement is iterated forward, not in reverse.
RECURSIVE InsertAllForward(_, _, _)
InsertAllForward(q, index, graphemes) ==
    IF graphemes = <<>>
       THEN [panic |-> FALSE, value |-> q]
       ELSE IF index > Len(q)
               THEN [panic |-> TRUE, value |-> q]
               ELSE InsertAllForward(
                       SubSeq(q, 1, index) \o <<Head(graphemes)>>
                          \o SubSeq(q, index + 1, Len(q)),
                       index, Tail(graphemes))

\* for grapheme in replacement_graphemes.0.iter().rev() { self.0.insert(range.start, ..) }
\* VecDeque::insert(index, value) panics when index > len.
RECURSIVE InsertAll(_, _, _)
InsertAll(q, index, graphemes) ==
    IF graphemes = <<>>
       THEN [panic |-> FALSE, value |-> q]
       ELSE IF index > Len(q)
               THEN [panic |-> TRUE, value |-> q]
               ELSE InsertAll(
                       SubSeq(q, 1, index) \o <<graphemes[Len(graphemes)]>>
                          \o SubSeq(q, index + 1, Len(q)),
                       index, SubSeq(graphemes, 1, Len(graphemes) - 1))

\* StyledGraphemes::replace_range(start..end, replacement): the sequence left and
\* whether the call panicked.
ReplaceRange(q, start, end, replacement) ==
    InsertAll(RemoveRange(q, start, end - start), start,
              FromStr(replacement, DefaultStyle))

\* The for loop of matrixify from unit k on, with `row` and `all` as they stand.
RECURSIVE WrapLoop(_, _, _, _, _)
WrapLoop(g, k, row, all, width) ==
    IF k > Len(g)
       THEN [all |-> all, row |-> row]
       ELSE LET styled == g[k]
                width_with_next_char == widths(row) + styled.width
                closes == row # <<>> /\ width < width_with_next_char
                all1 == IF closes THEN Append(all, row) ELSE all
                row1 == IF closes THEN <<>> ELSE row
                row2 == IF width >= styled.width THEN Append(row1, styled) ELSE row1
            IN  WrapLoop(g, k + 1, row2, all1, width)

\* `all` of matrixify after `if !row.is_empty() { all.push(row); }`.
AllRows(g, width) ==
    LET end == WrapLoop(g, 1, <<>>, <<>>, width)
    IN  IF end.row # <<>> THEN Append(end.all, end.row) ELSE end.all

\* Mutant of Chunks: chunks_exact, which leaves out a shorter last chunk.
RECURSIVE ChunksExact(_, _)
ChunksExact(all, height) ==
    IF Len(all) < height
       THEN <<>>
       ELSE <<SubSeq(all, 1, height)>> \o ChunksExact(SubSeq(all, height + 1, Len(all)), height)

\* all.chunks(height), for height >= 1.
RECURSIVE Chunks(_, _)
Chunks(all, height) ==
    IF all = <<>>
       THEN <<>>
       ELSE <<SubSeq(all, 1, Min(height, Len(all)))>>
               \o Chunks(SubSeq(all, height + 1, Len(all)), height)

\* Mutant of ChunkIndex: no clamp to the last chunk.
ChunkIndexUnclamped(offset, height, nchunks) == offset \div height

\* std::cmp::min(offset / height, chunks.len().saturating_sub(1))
ChunkIndex(offset, height, nchunks) ==
    Min(offset \div height, SaturatingSub(nchunks, 1))

\* StyledGraphemes::matrixify(width, height, offset): <<selected_chunk, local_offset>>
\* and whether the call panicked (slice::chunks panics on a chunk size of 0).
Matrixify(g, width, height, offset) ==
    LET all == AllRows(g, width) IN
    IF all = <<>>
       THEN [panic |-> FALSE, value |-> <<<<>>, 0>>]
       ELSE IF height = 0
               THEN [panic |-> TRUE, value |-> <<<<>>, 0>>]
               ELSE LET chunks == Chunks(all, height)
                        chunk_index == ChunkIndex(offset, height, Len(chunks))
                        selected_chunk == IF chunk_index < Len(chunks)
                                             THEN chunks[chunk_index + 1] ELSE <<>>
                        local_offset == offset % height
                    IN  [panic |-> FALSE, value |-> <<selected_chunk, local_offset>>]

\* Mutant of TruncateLoop: the loop stops when the width is reached, not exceeded.
RECURSIVE TruncateLoopStrict(_, _, _, _)
TruncateLoopStrict(g, k, row, width) ==
    IF k > Len(g)
       THEN row
       ELSE LET ch == g[k]
                width_with_next_char == widths(row) + ch.width
            IN  IF width <= width_with_next_char
                   THEN row
                   ELSE TruncateLoopStrict(g, k + 1,
                           IF width >= ch.width THEN Append(row, ch) ELSE row, width)

\* The for loop of truncate_to_width from unit k on, with `row` as it stands.
RECURSIVE TruncateLoop(_, _, _, _)
TruncateLoop(g, k, row, width) ==
    IF k > Len(g)
       THEN row
       ELSE LET ch == g[k]
                width_with_next_char == widths(row) + ch.width
            IN  IF width < width_with_next_char
                   THEN row
                   ELSE TruncateLoop(g, k + 1,
                           IF width >= ch.width THEN Append(row, ch) ELSE row, width)

\* Mutant of TruncateToWidth: the first row of the wrap, which skips a unit wider
\* than the width and packs on.
TruncateToWidthAsFirstRow(g, width) ==
    IF AllRows(g, width) = <<>> THEN <<>> ELSE AllRows(g, width)[1]

\* StyledGraphemes::truncate_to_width(width)
TruncateToWidth(g, width) == TruncateLoop(g, 1, <<>>, width)

\* A sequence, before any method is called on it.
InitText ==
    /\ text \in Texts
    /\ tOp = "none"
    /\ tArgs = <<>>
    /\ tOut = <<>>
    /\ tPanic = FALSE

\* A call of method op with arguments args whose outcome is out.
TextCall(op, args, out, panic) ==
    /\ tOp = "none"
    /\ tOp' = op
    /\ tArgs' = args
    /\ tOut' = out
    /\ tPanic' = panic
    /\ UNCHANGED text
    /\ UNCHANGED <<promptVars, obsVars, cursorVars, selectVars, rendererVars>>

Indices == 0..(MaxLen + 1)

\* text.replace_range(start..end, replacement)
replace_range ==
    \E start \in Indices, end \in Indices, replacement \in Replacements :
       LET r == ReplaceRange(text, start, end, replacement)
       IN  TextCall("replace_range", <<start, end, replacement>>, r.value, r.panic)

\* text.matrixify(width, height, offset)
matrixify ==
    \E width \in 0..MaxLayoutWidth, height \in 0..MaxHeight, offset \in 0..MaxOffset :
       LET r == Matrixify(text, width, height, offset)
       IN  TextCall("matrixify", <<width, height, offset>>, r.value, r.panic)

\* text.truncate_to_width(width)
truncate_to_width ==
    \E width \in 0..MaxLayoutWidth :
       TextCall("truncate_to_width", <<width>>, TruncateToWidth(text, width), FALSE)

(***************************************************************************)
(* SelectBox                                                               *)
(***************************************************************************)
Items == {"a", "b", "c"}

\* SelectBox::default(): no item, idx 0.
InitSelect ==
    /\ data = <<>>
    /\ select_idx = 0
    /\ selOp = "none"
    /\ selRet = "none"
    /\ selPrevIdx = 0
    /\ downs = 0

\* A call of method op that returns r, stores index i and leaves the items d.
\* downs counts the next() calls made in a row from a state with idx = 0.
SelectCall(op, r, i, d) ==
    /\ selOp' = op
    /\ selRet' = r
    /\ select_idx' = i
    /\ data' = d
    /\ selPrevIdx' = select_idx
    /\ downs' = IF op = "next"
                   THEN IF downs >= 0 /\ downs < MaxDowns THEN downs + 1 ELSE -1
                   ELSE IF i = 0 THEN 0 ELSE -1
    /\ UNCHANGED <<promptVars, obsVars, cursorVars, textVars, rendererVars>>

\* Register::register(item): self.data.push(..)
register ==
    /\ Len(data) < MaxItems
    /\ \E item \in Items : SelectCall("register", "unit", select_idx, Append(data, item))

\* SelectBox::prev
prev ==
    IF 0 < select_idx
       THEN SelectCall("prev", "true", select_idx - 1, data)
       ELSE SelectCall("prev", "false", select_idx, data)

\* Mutant of next: the bound is data.len(), not data.len() - 1.
nextOffByOne ==
    IF data # <<>> /\ select_idx < Len(data)
       THEN SelectCall("next", "true", select_idx + 1, data)
       ELSE SelectCall("next", "false", select_idx, data)

\* SelectBox::next
next ==
    IF data # <<>> /\ select_idx < Len(data) - 1
       THEN SelectCall("next", "true", select_idx + 1, data)
       ELSE SelectCall("next", "false", select_idx, data)

\* SelectBox::get: the item at the index, the default (empty) value when there is
\* none.
Get(items, i) == IF i < Len(items) THEN items[i + 1] ELSE ""

\* SelectBox::to_head
to_head == SelectCall("to_head", "unit", 0, data)

\* SelectBox::to_tail: self.idx.set(self.data.len() - 1)
to_tail ==
    \E d \in SubOutcomes(Len(data), 1) :
       IF d[1] THEN SelectCall("to_tail", "panic", select_idx, data)
               ELSE SelectCall("to_tail", "unit", d[2], data)

(***************************************************************************)
(* Terminal: the renderer behind Terminal::start_session and terminal.draw *)
(***************************************************************************)
RowContents == {"x", "y"}

\* The frame sets of the model, as the rows they put on the screen.
FrameSets == UNION {[1..n -> RowContents] : n \in 0..MaxRows}

\* No session yet.
InitRenderer ==
    /\ rStarted = FALSE
    /\ rSize = 0
    /\ rPrev = <<>>
    /\ rPaint = "none"
    /\ rWritten = {}
    /\ rSkipped = {}
    /\ rCleared = {}
    /\ rSizeBefore = 0
    /\ rPrevBefore = <<>>

\* Terminal::start_session: captures the terminal size, discards the diff state.
start_session ==
    /\ rStarted' = TRUE
    /\ rSize' = term_width
    /\ rPrev' = <<>>
    /\ rPaint' = "none"
    /\ rWritten' = {} /\ rSkipped' = {} /\ rCleared' = {}
    /\ rSizeBefore' = rSize
    /\ rPrevBefore' = rPrev
    /\ UNCHANGED <<promptVars, obsVars, cursorVars, textVars, selectVars>>

\* Mutant of NeedsFullRepaint: the size is not compared.
NeedsFullRepaintFirstOnly(committed, lastSize, nowSize) == committed = <<>>

\* draw, step 1: a full repaint when there is no committed frame set or the size
\* changed since the last draw.
NeedsFullRepaint(committed, lastSize, nowSize) ==
    committed = <<>> \/ lastSize # nowSize

\* Terminal::draw(frame set): re-query the size; repaint every row, or diff row by
\* row against the committed frame set (unchanged rows skipped, changed rows
\* rewritten, rows no longer present cleared); commit the new frame set.
draw ==
    /\ rStarted
    /\ \E frames \in FrameSets :
          LET now == term_width
              full == NeedsFullRepaint(rPrev, rSize, now)
              old == IF rPrev = <<>> THEN <<>> ELSE rPrev[1]
              same == {i \in 1..Len(frames) : i <= Len(old) /\ old[i] = frames[i]}
          IN  /\ rPaint' = IF full THEN "full" ELSE "diff"
              /\ rWritten' = IF full THEN 1..Len(frames) ELSE (1..Len(frames)) \ same
              /\ rSkipped' = IF full THEN {} ELSE same
              /\ rCleared' = IF full THEN {} ELSE (Len(frames) + 1)..Len(old)
              /\ rPrev' = <<frames>>
              /\ rSize' = now
    /\ rSizeBefore' = rSize
    /\ rPrevBefore' = rPrev
    /\ UNCHANGED rStarted
    /\ UNCHANGED <<promptVars, obsVars, cursorVars, textVars, selectVars>>

(***************************************************************************)
(* Specifications                                                          *)
(***************************************************************************)
\* No cursor in play: the cursor variables rest.
NoCursor ==
    /\ bundle = <<>>
    /\ cross_contents_position = 0
    /\ lastOp = "none"
    /\ lastRet = "none"
    /\ derived = <<>>
    /\ lastArgs = <<>>
    /\ prevPos = 0
    /\ prevOp = "none"
    /\ prevRet = "none"
    /\ prevPrevPos = 0

\* No styled sequence in play.
NoText ==
    /\ text = <<>>
    /\ tOp = "none"
    /\ tArgs = <<>>
    /\ tOut = <<>>
    /\ tPanic = FALSE

Init == InitPrompt /\ NoCursor /\ NoText /\ InitSelect /\ InitRenderer

Next ==
    \/ TryNew
    \/ RunBegin
    \/ EnableRawMode
    \/ HideCursor
    \/ StartSession
    \/ FirstSize
    \/ FirstDraw
    \/ ReadEvent
    \/ HandleEvent
    \/ Evaluate
    \/ LoopSize
    \/ LoopDraw
    \/ Produce
    \/ Postrun
    \/ Drop
    \/ Resize

Spec == Init /\ [][Next]_vars

\* No prompt in play: the prompt variables rest.
InitCursorOnly ==
    InitPrompt /\ term_width = 1 /\ InitCursor /\ NoText /\ InitSelect /\ InitRenderer

NextCursor ==
    \/ shift
    \/ forward
    \/ backward
    \/ move_to_head
    \/ move_to_tail
    \/ current_bundle_index_and_inner_position

SpecCursor == InitCursorOnly /\ [][NextCursor]_vars

\* One method call on a styled sequence.
InitTextOnly ==
    InitPrompt /\ term_width = 1 /\ NoCursor /\ InitText /\ InitSelect /\ InitRenderer

NextText ==
    \/ replace_range
    \/ matrixify
    \/ truncate_to_width

SpecText == InitTextOnly /\ [][NextText]_vars

\* A SelectBox from SelectBox::default() on.
InitSelectOnly ==
    InitPrompt /\ term_width = 1 /\ NoCursor /\ NoText /\ InitSelect /\ InitRenderer

NextSelect ==
    \/ register
    \/ prev
    \/ next
    \/ to_head
    \/ to_tail

SpecSelect == InitSelectOnly /\ [][NextSelect]_vars

\* A terminal session: draws and resizes.
InitTerminal == InitPrompt /\ NoCursor /\ NoText /\ InitSelect /\ InitRenderer

NextTerminal ==
    \/ start_session
    \/ draw
    \/ Resize

SpecTerminal == InitTerminal /\ [][NextTerminal]_vars

(***************************************************************************)
(* Properties of the prompt loop (checked under Spec)                      *)
(***************************************************************************)
\* The first n renderers in registration order.
FirstRenderers(n) == [k \in 1..n |-> k]

\* run() has left its loop through `break`.
LoopLeft ==
    \/ pc \in {"produce", "postrun"}
    \/ pc = "returned" /\ result \in ProducerResults

\* C1: run() leaves its loop only on a tick where a renderer returned Quit for the
\* tick's event and the evaluator returned true for that same event; on a tick
\* where the evaluator was called and one of the two is missing the loop goes on
\* (to the size query and the draw).  The Quit is the one of the current event: a
\* Quit of an earlier tick does not count.
C1_ExitOnlyOnQuitAndReady ==
    /\ LoopLeft => quitter # 0 /\ evalTick = tick /\ evalRet = "true"
    /\ pc \in {"size", "draw"} =>
          evalTick = tick /\ ~(quitter # 0 /\ evalRet = "true")
    /\ should_quit <=> quitter # 0

\* The loop ends on a second or later tick, the earlier ones having gone on.
C1_Witness == pc = "produce" /\ tick > 1 /\ quitter = 2

\* The Prompt that ran has been dropped.
Dropped == pc = "idle" /\ dropLog # <<>>

C3_ErrorAborts ==
    /\ result = "Err_handle_event" =>
          /\ failed \in Renderers
          /\ dispatched = FirstRenderers(failed)
          /\ evalTick < tick
          /\ draws = tick /\ drawTick < tick /\ sizeTick < tick
    /\ result = "Err_evaluator" =>
          /\ evalTick = tick /\ evalRet = "Err"
          /\ draws = tick /\ drawTick < tick /\ sizeTick < tick
    /\ result = "Err_size" => draws = tick /\ (tick > 0 => drawTick < tick)
    /\ result = "Err_draw" => draws = tick /\ (tick > 0 => drawTick < tick)
    /\ result = "Err_read" => draws = tick + 1 /\ drawTick = tick /\ evalTick = tick
    /\ result \in {"Err_handle_event", "Err_evaluator", "Err_size", "Err_draw",
                   "Err_read"} =>
          /\ pc \in {"returned", "idle", "new"}
          /\ producerCalls = 0 /\ ret = "none" /\ postrunLog = <<>>

\* The second renderer failed on the second event.
C3_Witness == result = "Err_handle_event" /\ failed = 2 /\ tick = 2

\* C4: the event goes to the renderers in registration order, each at most once;
\* when dispatch is over, the renderers up to and including the first that
\* returned Quit have handled it exactly once and the later ones not at all, and
\* without a Quit every renderer has handled it exactly once.
C4_DispatchOrder ==
    /\ dispatched = FirstRenderers(Len(dispatched))
    /\ pc = "dispatch" => quitter = 0 /\ Len(dispatched) = idx - 1
    /\ pc \in {"evaluate", "size", "draw", "produce", "postrun"} /\ tick > 0 =>
          Len(dispatched) = IF quitter # 0 THEN quitter ELSE NumRenderers

\* The first renderer returned Quit: the others did not see the event.
C4_Witness == pc = "evaluate" /\ quitter = 1 /\ dispatched = <<1>>

\* C5: on normal loop exit the producer is called exactly once, and only then
\* postrun runs once on every renderer in registration order; run() returns the
\* producer's value, an error included.
C5_ProduceThenPostrun ==
    /\ producerCalls <= 1
    /\ postrunLog # <<>> => producerCalls = 1
    /\ pc = "produce" => producerCalls = 0 /\ postrunLog = <<>>
    /\ pc = "postrun" => producerCalls = 1 /\ postrunLog = FirstRenderers(idx - 1)
    /\ result \in ProducerResults =>
          /\ producerCalls = 1
          /\ postrunLog = FirstRenderers(NumRenderers)
          /\ result = ret

\* The producer failed: postrun still ran on every renderer.
C5_Witness ==
    /\ pc = "returned" /\ result = "Err_producer"
    /\ postrunLog = FirstRenderers(NumRenderers)

(***************************************************************************)
(* Properties of the composite cursor (checked under SpecCursor)           *)
(***************************************************************************)
\* C6: after construction and after any sequence of navigation calls the position
\* is below the total length, and 0 when the total length is 0.
C6_PositionInBounds ==
    IF TotalLen(bundle) = 0
       THEN cross_contents_position = 0
       ELSE 0 <= cross_contents_position /\ cross_contents_position < TotalLen(bundle)

\* The first shift after construction succeeded and reached the tail.
C6_Witness ==
    /\ prevOp = "new" /\ lastOp = "shift" /\ lastRet = "true"
    /\ cross_contents_position = TotalLen(bundle) - 1

\* C7: shift(back, fwd) returns true and stores p - back + fwd exactly when
\* back <= p and p - back + fwd < total length, and otherwise returns false and
\* leaves the position as it was.
C7_ShiftAllOrNothing ==
    lastOp = "shift" =>
       LET back == lastArgs[1]
           fwd == lastArgs[2]
       IN  IF back <= prevPos /\ prevPos - back + fwd < TotalLen(bundle)
              THEN lastRet = "true" /\ cross_contents_position = prevPos - back + fwd
              ELSE lastRet = "false" /\ cross_contents_position = prevPos

\* C8: forward() adds 1 and returns true iff position < total - 1, and backward()
\* subtracts 1 and returns true iff position > 0; otherwise each returns false and
\* leaves the position as it was.
C8_SingleStep ==
    /\ lastOp = "forward" =>
          IF prevPos < TotalLen(bundle) - 1
             THEN lastRet = "true" /\ cross_contents_position = prevPos + 1
             ELSE lastRet = "false" /\ cross_contents_position = prevPos
    /\ lastOp = "backward" =>
          IF prevPos > 0
             THEN lastRet = "true" /\ cross_contents_position = prevPos - 1
             ELSE lastRet = "false" /\ cross_contents_position = prevPos

\* forward() on a cursor over nothing.
C8_Witness == lastOp = "forward" /\ lastRet = "false" /\ TotalLen(bundle) = 0

\* C9: a forward() that returned true followed by backward(): backward returns
\* true and the position is the one before the pair; the same for backward() then
\* forward().  A pair that ends elsewhere began with a call that failed.
C9_RoundTrip ==
    /\ prevOp = "forward" /\ lastOp = "backward" /\ prevRet = "true" =>
          lastRet = "true" /\ cross_contents_position = prevPrevPos
    /\ prevOp = "backward" /\ lastOp = "forward" /\ prevRet = "true" =>
          lastRet = "true" /\ cross_contents_position = prevPrevPos
    /\ /\ {prevOp, lastOp} = {"forward", "backward"}
       /\ cross_contents_position # prevPrevPos
       => prevRet = "false"

\* forward() from the position before the tail, then backward().
C9_Witness ==
    /\ prevOp = "forward" /\ prevRet = "true" /\ lastOp = "backward"
    /\ prevPos = TotalLen(bundle) - 1

\* C10: move_to_head stores 0 and move_to_tail stores total - 1 (0 over nothing);
\* forward() right after move_to_tail, and backward() right after move_to_head,
\* return false and do not move.
C10_HeadAndTail ==
    /\ lastOp = "move_to_head" => cross_contents_position = 0
    /\ lastOp = "move_to_tail" =>
          cross_contents_position =
             IF TotalLen(bundle) = 0 THEN 0 ELSE TotalLen(bundle) - 1
    /\ prevOp = "move_to_tail" /\ lastOp = "forward" =>
          lastRet = "false" /\ cross_contents_position = prevPos
    /\ prevOp = "move_to_head" /\ lastOp = "backward" =>
          lastRet = "false" /\ cross_contents_position = prevPos

\* move_to_tail from the head of a cursor over several elements, then forward().
C10_Witness ==
    /\ prevOp = "move_to_tail" /\ lastOp = "forward"
    /\ prevPrevPos = 0 /\ prevPos > 1

\* C11: new stores the requested position q when q < total length, total - 1 when
\* q >= total length > 0, and 0 when the total length is 0.
C11_NewClamps ==
    lastOp = "new" =>
       LET q == lastArgs[1]
           total == TotalLen(bundle)
       IN  /\ lastRet = "unit"
           /\ cross_contents_position =
                 IF q < total THEN q ELSE IF total > 0 THEN total - 1 ELSE 0

\* new with usize::MAX as the position over more than one element.
C11_Witness == lastOp = "new" /\ lastArgs[1] = UsizeMax /\ TotalLen(bundle) > 1

(***************************************************************************)
(* Properties of styled sequences (checked under SpecText)                 *)
(***************************************************************************)
\* The units of a plain text, in the default style.
Plain(string) ==
    [i \in 1..Len(string) |->
        [ch |-> string[i], width |-> CharWidth(string[i]), style |-> "default"]]

\* The rows of a list of rows, or the pages of a list of pages, one after another.
RECURSIVE Flatten(_)
Flatten(ss) == IF ss = <<>> THEN <<>> ELSE Head(ss) \o Flatten(Tail(ss))

\* C12: replace_range(s..e, r) with s <= e <= length leaves the units before s,
\* then the units of r in the default style, then the units from e on, the kept
\* units with the style they had.
C12_ReplaceRange ==
    tOp = "replace_range" /\ tArgs[1] <= tArgs[2] /\ tArgs[2] <= Len(text) =>
       /\ ~tPanic
       /\ tOut = SubSeq(text, 1, tArgs[1]) \o Plain(tArgs[3])
                    \o SubSeq(text, tArgs[2] + 1, Len(text))

\* The middle unit of three replaced by two characters, a styled unit kept.
C12_Witness ==
    /\ tOp = "replace_range" /\ tArgs[1] = 1 /\ tArgs[2] = 2 /\ Len(tArgs[3]) = 2
    /\ Len(text) = 3 /\ text[3].style = "bold"

\* C13: replace_range completes for every range and every replacement, ranges
\* reaching past the length included.
C13_ReplaceRangeNeverPanics == tOp = "replace_range" => ~tPanic

\* C14: truncate_to_width(w) returns a prefix of the sequence of total width <= w,
\* and the whole sequence when its total width is <= w.
C14_Truncate ==
    tOp = "truncate_to_width" =>
       /\ Len(tOut) <= Len(text)
       /\ tOut = SubSeq(text, 1, Len(tOut))
       /\ widths(tOut) <= tArgs[1]
       /\ widths(text) <= tArgs[1] => tOut = text

\* A sequence cut before a wide unit that does not fit.
C14_Witness ==
    /\ tOp = "truncate_to_width" /\ tOut # <<>> /\ Len(tOut) < Len(text)
    /\ text[Len(tOut) + 1].ch = "W"

\* C15: matrixify completes for every width, height and offset, 0 included, and
\* returns a page of at most `height` rows, each of total width <= width.
C15_PageWithinBounds ==
    tOp = "matrixify" =>
       /\ ~tPanic
       /\ Len(tOut[1]) <= tArgs[2]
       /\ \A i \in 1..Len(tOut[1]) : widths(tOut[1][i]) <= tArgs[1]

\* C16: for height >= 1 the pages of offsets 0, height, 2 * height, ... one after
\* another are the rows of the wrap; the rows one after another are the units of
\* the input of width <= width, in order, each once; no row is empty and no row
\* is wider than width.
C16_PagesKeepContent ==
    tOp = "matrixify" /\ tArgs[2] >= 1 =>
       LET width == tArgs[1]
           height == tArgs[2]
           all == AllRows(text, width)
           npages == (Len(all) + height - 1) \div height
           page(k) == Matrixify(text, width, height, (k - 1) * height)
       IN  /\ \A k \in 1..npages : ~page(k).panic
           /\ Flatten([k \in 1..npages |-> page(k).value[1]]) = all
           /\ Flatten(all) = SelectSeq(text, LAMBDA u : u.width <= width)
           /\ \A i \in 1..Len(all) : all[i] # <<>> /\ widths(all[i]) <= width

\* A wide unit dropped at width 1, the rest on several pages of one row.
C16_Witness ==
    /\ tOp = "matrixify" /\ tArgs[1] = 1 /\ tArgs[2] = 1
    /\ Len(text) = 3 /\ text[2].ch = "W" /\ Len(AllRows(text, 1)) = 2

\* C17: with P >= 1 pages matrixify returns page min(offset / height, P - 1) and
\* the line offset offset mod height; when the wrap has no row it returns an empty
\* page and line offset 0.
C17_PageSelection ==
    tOp = "matrixify" /\ ~tPanic =>
       LET width == tArgs[1]
           height == tArgs[2]
           offset == tArgs[3]
           all == AllRows(text, width)
       IN  IF all = <<>>
              THEN tOut = <<<<>>, 0>>
              ELSE LET npages == (Len(all) + height - 1) \div height
                       p == Min(offset \div height, npages - 1)
                   IN  /\ tOut[1] = SubSeq(all, p * height + 1,
                                            Min((p + 1) * height, Len(all)))
                       /\ tOut[2] = offset % height

\* An offset past the last page.
C17_Witness ==
    /\ tOp = "matrixify" /\ ~tPanic /\ tArgs[2] = 2 /\ tArgs[3] = 4
    /\ Len(AllRows(text, tArgs[1])) = 3

(***************************************************************************)
(* Properties of the select box (checked under SpecSelect)                 *)
(***************************************************************************)
\* C18: over n >= 1 items, k next() calls from index 0 leave the index at
\* min(k, n - 1); next() at n - 1 and prev() at 0 return false and do not move.
C18_SelectMoves ==
    /\ downs >= 0 /\ data # <<>> => select_idx = Min(downs, Len(data) - 1)
    /\ selOp = "next" /\ data # <<>> /\ selPrevIdx = Len(data) - 1 =>
          selRet = "false" /\ select_idx = selPrevIdx
    /\ selOp = "next" /\ data # <<>> /\ selPrevIdx < Len(data) - 1 =>
          selRet = "true" /\ select_idx = selPrevIdx + 1
    /\ selOp = "prev" /\ selPrevIdx = 0 => selRet = "false" /\ select_idx = 0

\* Over a, b, c: the third next() in a row from index 0.
C18_Witness ==
    /\ data = <<"a", "b", "c">> /\ downs = 3 /\ select_idx = 2
    /\ selOp = "next" /\ selRet = "false"

(***************************************************************************)
(* Properties of the process and of the renderer                           *)
(***************************************************************************)
\* C19 (under Spec): the initial clear is executed once in the process, by the
\* first run() to start, whatever it reports and however the runs end.
C19_ClearOnce ==
    /\ cleared = IF runs > 0 THEN 1 ELSE 0
    /\ once <=> runs > 0
    /\ clearResult \in ClearResults <=> runs > 0

\* A later run() starts after a clear that reported an error.
C19_Witness == runs > 1 /\ pc = "enable_raw_mode" /\ clearResult = "Err"

\* C20 (under SpecTerminal): a draw with no committed frame set (the first of a
\* session) or after a size change repaints every row and skips none; any other
\* draw skips the rows equal to the committed ones, rewrites the others and
\* clears the rows no longer present; each draw commits its frame set.
C20_ResizeRepaints ==
    rPaint # "none" =>
       LET frames == rPrev[1]
           old == IF rPrevBefore = <<>> THEN <<>> ELSE rPrevBefore[1]
           same == {i \in 1..Len(frames) : i <= Len(old) /\ old[i] = frames[i]}
       IN  /\ rPrev # <<>>
           /\ rPrevBefore = <<>> \/ rSizeBefore # rSize =>
                 rPaint = "full" /\ rSkipped = {} /\ rWritten = 1..Len(frames)
           /\ rPrevBefore # <<>> /\ rSizeBefore = rSize =>
                 /\ rPaint = "diff"
                 /\ rSkipped = same
                 /\ rWritten = (1..Len(frames)) \ same
                 /\ rCleared = (Len(frames) + 1)..Len(old)

\* A draw after a resize, with rows that a diff would have skipped.
C20_Witness ==
    /\ rPaint = "full" /\ rPrevBefore # <<>> /\ rPrev = rPrevBefore
    /\ Len(rPrev[1]) = MaxRows

(***************************************************************************)
(* Properties of the derived position (checked under SpecCursor)           *)
(***************************************************************************)
\* The pairs (block index from 0, inner offset) that name position p in block list b.
PairsOf(b, p) ==
    {pr \in (0..(Len(b) - 1)) \X (0..p) :
        /\ pr[2] < b[pr[1] + 1]
        /\ TotalLen(SubSeq(b, 1, pr[1])) + pr[2] = p}

\* C22: on a cursor of total length > 0 the derived query returns from the scan,
\* never from the fallback, the one pair (i, o) with o < len(block i) and
\* len(block 0) + ... + len(block i-1) + o = position; so never an empty block.
C22_DerivedPosition ==
    lastOp = "current_bundle_index_and_inner_position" /\ TotalLen(bundle) > 0 =>
       /\ lastRet = "scan"
       /\ PairsOf(bundle, cross_contents_position) = {derived}
       /\ bundle[derived[1] + 1] > 0

\* The query on the last element of a block that follows an empty block.
C22_Witness ==
    /\ lastOp = "current_bundle_index_and_inner_position"
    /\ bundle = <<0, 2>> /\ cross_contents_position = 1 /\ derived = <<1, 1>>

\* C23: on a cursor of total length 0 (no block, or empty blocks only) forward,
\* backward, shift, move_to_head, move_to_tail and the derived query complete
\* without raising.
C23_DegenerateAbsorbed ==
    TotalLen(bundle) = 0 /\ lastOp # "new" => lastRet # "panic"

(***************************************************************************)
(* Further properties of styled sequences (checked under SpecText)         *)
(***************************************************************************)
\* The first row of a wrap, empty when the wrap has no row.
FirstRow(all) == IF all = <<>> THEN <<>> ELSE all[1]

\* C24 as stated: for every sequence and width w, truncate_to_width(w) is the first
\* row of the wrap matrixify builds at width w, empty when the wrap has no row.
C24_SameGreedyPack ==
    tOp = "truncate_to_width" => tOut = FirstRow(AllRows(text, tArgs[1]))

\* C24 amended: truncate_to_width(w) is the first row of the wrap at width w (empty
\* when the wrap has no row) unless the first unit of the sequence is wider than w;
\* then truncate_to_width stops at once and returns the empty sequence, whatever
\* the wrap packs after dropping that unit.
C24_SamePackUnlessWideFirst ==
    tOp = "truncate_to_width" =>
       IF text # <<>> /\ text[1].width > tArgs[1]
          THEN tOut = <<>>
          ELSE tOut = FirstRow(AllRows(text, tArgs[1]))

\* A wide unit after a narrow one at width 1: both stop before it.
C24_Witness ==
    /\ tOp = "truncate_to_width" /\ tArgs[1] = 1 /\ Len(text) = 3
    /\ text[1].ch = "a" /\ text[2].ch = "W" /\ text[3].ch = "a"
    /\ tOut = <<text[1]>>

\* C27: whenever matrixify returns a non-empty page, the line offset it returns is
\* less than the number of rows of that page.
C27_LineOffsetInPage ==
    tOp = "matrixify" /\ ~tPanic /\ tOut[1] # <<>> => tOut[2] < Len(tOut[1])

(***************************************************************************)
(* Further properties of the select box (checked under SpecSelect)         *)
(***************************************************************************)
\* C28: after any interleaving of register, next, prev, to_head and to_tail from
\* the default box, no operation has raised, the index is < the number of items
\* when there are items and 0 when there are none, and get() returns the item at
\* the index, or the default value when there are no items.
C28_IndexInvariant ==
    /\ selRet # "panic"
    /\ data # <<>> => select_idx < Len(data) /\ Get(data, select_idx) = data[select_idx + 1]
    /\ data = <<>> => select_idx = 0 /\ Get(data, select_idx) = ""

(***************************************************************************)
(* Further properties of Prompt::run and drop (checked under Spec)         *)
(***************************************************************************)
\* run() has left its loop by `break`.
Exiting == pc \in {"produce", "postrun"} \/ (pc = "returned" /\ producerCalls > 0)

\* A size query that succeeds reads the width the terminal has then.
SizeMeasured ==
    pc \in {"first_size", "size"} /\ pc' \in {"first_draw", "draw"} =>
       size' = term_width /\ sizeTick' = tick

\* A draw uses the width of a size query made at the current event, after the
\* evaluator was called with that event, and is the first draw of that event.
DrawUsesFreshSize ==
    draws' = draws + 1 =>
       /\ sizeTick = tick
       /\ draws = tick
       /\ tick > 0 => evalTick = tick
       /\ drawnWidth' = size
       /\ drawTick' = tick

\* An event is read after the one draw of the event before it.
ReadAfterDraw ==
    tick' = tick + 1 => draws = tick + 1 /\ drawTick = tick /\ sizeTick = tick

\* C21: every draw uses the width of a size query made at the current event, after
\* that event was dispatched and evaluated, and it is the first draw since that
\* query; an event is read only after the one draw of the event before; on the
\* exiting event there is no size query and no draw.
C21_MeasureBeforeDraw ==
    /\ [][SizeMeasured /\ DrawUsesFreshSize /\ ReadAfterDraw]_vars
    /\ [](Exiting => sizeTick < tick /\ drawTick < tick /\ draws = tick)

\* The draw of the first event is done, with the width the terminal has then.
C21_Witness ==
    /\ pc = "read" /\ draws = 2 /\ drawTick = 1 /\ sizeTick = 1 /\ evalTick = 1
    /\ drawnWidth = term_width

\* The three commands of a drop.
DropCommands == <<"MoveToNextLine", "Show", "disable_raw_mode">>

\* run() never restores: between the creation and the drop of a Prompt no command
\* of the drop is issued and neither raw mode nor the hidden cursor is undone.
NoRestoreBeforeDrop ==
    pc # "idle" /\ pc' # "idle" =>
       /\ dropLog' = <<>>
       /\ raw_mode => raw_mode'
       /\ cursor_hidden => cursor_hidden'

\* Each drop, of a Prompt that ran or not, issues the three commands once.
DropRestoresOnce ==
    pc # "idle" /\ pc' = "idle" =>
       dropLog = <<>> /\ dropLog' = DropCommands /\ ~raw_mode' /\ ~cursor_hidden'

\* C25 as stated: run() restores nothing, so whenever run() has returned and the
\* Prompt is not dropped yet raw mode is enabled and the cursor hidden; each drop
\* issues MoveToNextLine, Show, disable_raw_mode once, also without any run().
C25_RestoredOnlyByDrop ==
    /\ [](pc = "returned" => raw_mode /\ cursor_hidden)
    /\ [][NoRestoreBeforeDrop /\ DropRestoresOnce]_vars

\* C25 amended: as stated, except that after run() returned the error of
\* enable_raw_mode raw mode and the hidden cursor are as they were before the call,
\* and after it returned the error of cursor::Hide the cursor is.
C25_RestoredOnlyByDropAfterSetup ==
    /\ [](pc = "returned" /\ result # "Err_enable_raw_mode" => raw_mode)
    /\ [](pc = "returned" /\ result \notin {"Err_enable_raw_mode", "Err_hide"} =>
              cursor_hidden)
    /\ [][NoRestoreBeforeDrop /\ DropRestoresOnce]_vars

\* run() has returned an error of the loop and the Prompt is not dropped yet.
C25_Witness ==
    /\ pc = "returned" /\ result = "Err_evaluator" /\ raw_mode /\ cursor_hidden
    /\ dropLog = <<>>

\* The errors run() returns other than the producer's.
RunErrors ==
    {"Err_enable_raw_mode", "Err_hide", "Err_start_session", "Err_read",
     "Err_handle_event", "Err_evaluator", "Err_size", "Err_draw"}

\* C26: when run() returns an error of the event read, of handle_event, of the
\* evaluator, of the size query or of a draw, no postrun was invoked; postrun is
\* invoked only after the producer, and at most once per component in one run().
C26_PostrunOnNormalExit ==
    /\ result \in RunErrors => postrunLog = <<>>
    /\ postrunLog # <<>> => producerCalls = 1
    /\ \A i, j \in DOMAIN postrunLog : i # j => postrunLog[i] # postrunLog[j]

\* run() has returned the error of a draw inside the loop.
C26_Witness ==
    /\ pc = "returned" /\ result = "Err_draw" /\ tick > 0 /\ draws > 0
    /\ postrunLog = <<>>

====
